---- MODULE Spec2Model ----
(***************************************************************************)
(* NumClash: the game rules engine (initializeGame, rollDiceForGame,       *)
(* applyDiceOperation, applyFinalMove) and the NumClashScreen handlers     *)
(* that drive it (roll button, operation buttons, the two countdown        *)
(* intervals, the forced move on expiry, the winner dialog).               *)
(*                                                                         *)
(* Representation.  A JavaScript value that may be null is a sequence:     *)
(* << >> is null and <<v>> is the value v (diceResults is << >> or the     *)
(* pair <<d1, d2>>).  A string the code trims is a sequence of one-letter  *)
(* strings.  A function that may throw returns [ok |-> TRUE, ...] or       *)
(* [ok |-> FALSE, error |-> ...].  Math.random() is an input: each use     *)
(* takes the floored draw as a parameter.                                  *)
(***************************************************************************)
EXTENDS Integers, Sequences, FiniteSets, TLC

VARIABLES
  gameState,             \* useState<GameState>
  playerCount,           \* the playerCount prop
  showOperationsModal,   \* useState(false)
  showPlayerNamesModal,  \* useState(true)
  isRolling,             \* useState(false)
  rollTimeout,           \* pending setTimeout of rollDiceAction: << >> or <<captured gameState>>
  isTimerActive,         \* useState(false)
  currentTimer,          \* useState<'dice' | 'final'>('dice')
  timerRef,              \* interval of startTimer: << >> or <<countdown>>
  intervalRef,           \* interval of LinearProgress: << >> or <<[currentProgress, onComplete]>>
  strayIntervals,        \* setInterval handles of startTimer still live that timerRef no longer holds
  winnerAlert,           \* the winner dialog: "none", "pending" (setTimeout 500) or "shown"
  arith,                 \* a direct call of the arithmetic functions: << >>, or <<its operands
                         \* and what each function returned>>; under BootSpec, <<the
                         \* customNames initializeGame was called with>>
  turns,                 \* what bounds the run: the times the turn has passed on (under
                         \* Spec), the final moves applied (under EngineSpec)
  lastCall               \* what the last step did: the engine function called and how it ended

vars == <<gameState, playerCount, showOperationsModal, showPlayerNamesModal, isRolling,
          rollTimeout, isTimerActive, currentTimer, timerRef, intervalRef, strayIntervals,
          winnerAlert, arith, turns, lastCall>>

uiVars == <<playerCount, showOperationsModal, showPlayerNamesModal, isRolling, rollTimeout,
            isTimerActive, currentTimer, timerRef, intervalRef, strayIntervals, winnerAlert,
            arith>>

----------------------------------------------------------------------------
(* Program constants *)

INITIAL_PLAYER_NUMBER == 5
MIN_TARGET == 50
MAX_TARGET == 500
DICE_OPERATION_TIMER == 5
FINAL_OPERATION_TIMER == 5
DIE_FACES == 6

PLAYER_COLORS == <<"#FF6B6B", "#4ECDC4", "#45B7D1", "#96CEB4">>

Operations == <<"+", "-", "*", "/">>

OperationSet == {Operations[i] : i \in 1..Len(Operations)}

----------------------------------------------------------------------------
(* Bounds of the model and the inputs it draws *)

\* times the turn may pass to the next player in a run of the screen
MaxTurns == 1

\* final moves a run of direct engine calls may apply
MaxEngineMoves == 1

\* the player counts the home screen offers
PlayerCounts == {2, 3}

\* floored draws Math.floor(Math.random() * (MAX_TARGET - MIN_TARGET + 1)) the model takes
TargetDraws == {0, MAX_TARGET - MIN_TARGET}

\* floored draws Math.floor(Math.random() * DIE_FACES) of the two dice the model takes:
\* (4,6) reaches 50 = 5 * 10, (3,3) gives 0 and 1, (6,3) and (3,6) divide or not
DiceDraws ==
  {draws \in (0..(DIE_FACES - 1)) \X (0..(DIE_FACES - 1)) :
     draws \in {<<3, 5>>, <<2, 2>>, <<5, 2>>, <<2, 5>>}}

\* every player count the home screen offers, for the runs of engine calls alone
SeatCounts == 2..4

\* player counts initializeGame is called with directly: 0, 1 and one past the colours
BootCounts == 0..5

\* every pair of floored draws of the two dice
AllDiceDraws == (0..(DIE_FACES - 1)) \X (0..(DIE_FACES - 1))

\* names typed into the name form: plain, padded with blanks, and blank
NameInputs == {<<"a">>, <<" ", "a", " ">>, <<" ">>}

\* the arithmetic functions are called directly on the integers -MaxOperand..MaxOperand
MaxOperand == 6

Operands == (-MaxOperand)..MaxOperand

----------------------------------------------------------------------------
(* RNG utilities *)

generateTargetNumber_pastMax(draw) == draw + MIN_TARGET + 1

generateTargetNumber(draw) == draw + MIN_TARGET

rollDice_zeroBased(draw) == draw

rollDice(draw) == draw + 1

rollTwoDice(draws) == <<rollDice(draws[1]), rollDice(draws[2])>>

----------------------------------------------------------------------------
(* Strings *)

IsSpace(c) == c = " "

RECURSIVE TrimStart(_)
TrimStart(s) == IF s # << >> /\ IsSpace(Head(s)) THEN TrimStart(Tail(s)) ELSE s

RECURSIVE TrimEnd(_)
TrimEnd(s) ==
  IF s # << >> /\ IsSpace(s[Len(s)]) THEN TrimEnd(SubSeq(s, 1, Len(s) - 1)) ELSE s

Trim_startOnly(s) == TrimStart(s)

Trim(s) == TrimEnd(TrimStart(s))

Digit(n) == <<"0", "1", "2", "3", "4", "5", "6", "7", "8", "9">>[n + 1]

\* `Oyuncu ${i + 1}` for a seat i + 1 below 10
DefaultName(seat) == <<"O", "y", "u", "n", "c", "u", " ", Digit(seat)>>

\* customNames?.[i]?.trim() || `Oyuncu ${i + 1}`; customNames is << >> when not given
PlayerName(customNames, seat) ==
  IF customNames = << >> \/ seat > Len(customNames) THEN DefaultName(seat)
  ELSE IF Trim(customNames[seat]) = << >> THEN DefaultName(seat)
  ELSE Trim(customNames[seat])

----------------------------------------------------------------------------
(* Session bootstrap *)

ColorOf_first(seat) == PLAYER_COLORS[1]

\* PLAYER_COLORS[i]: undefined past the end of the array
ColorOf(seat) == IF seat \in DOMAIN PLAYER_COLORS THEN PLAYER_COLORS[seat] ELSE "undefined"

\* the values Math.floor(Math.random() * playerCount) takes
StartDraws(count) == IF count > 0 THEN 0..(count - 1) ELSE {0}

initializeGame(count, customNames, targetDraw, startDraw) ==
  [ players |-> [i \in 1..count |->
                   [ id |-> i,
                     name |-> PlayerName(customNames, i),
                     currentNumber |-> INITIAL_PLAYER_NUMBER,
                     color |-> ColorOf(i) ]],
    targetNumber |-> generateTargetNumber(targetDraw),
    currentPlayerIndex |-> startDraw,
    diceResults |-> << >>,
    diceCalculationResult |-> << >>,
    winner |-> << >>,
    gameStarted |-> TRUE,
    gamePhase |-> "roll" ]

----------------------------------------------------------------------------
(* Arithmetic operation engine *)

Abs_identity(x) == x

Abs(x) == IF x < 0 THEN -x ELSE x

\* JavaScript's %, for a divisor other than 0: the sign follows the dividend
Rem(a, b) == IF a >= 0 THEN a % Abs(b) ELSE -((-a) % Abs(b))

applyOperation_signedMinus(number1, number2, operation) ==
  CASE operation = "+" -> [ok |-> TRUE, value |-> number1 + number2]
    [] operation = "-" -> [ok |-> TRUE, value |-> number1 - number2]
    [] operation = "*" -> [ok |-> TRUE, value |-> number1 * number2]
    [] operation = "/" ->
         IF number2 = 0 THEN [ok |-> FALSE, error |-> "division by zero"]
         ELSE IF Rem(number1, number2) # 0 THEN [ok |-> FALSE, error |-> "inexact division"]
         ELSE [ok |-> TRUE, value |-> number1 \div number2]
    [] OTHER -> [ok |-> FALSE, error |-> "invalid operation"]

applyOperation_truncating(number1, number2, operation) ==
  CASE operation = "+" -> [ok |-> TRUE, value |-> number1 + number2]
    [] operation = "-" -> [ok |-> TRUE, value |-> Abs(number1 - number2)]
    [] operation = "*" -> [ok |-> TRUE, value |-> number1 * number2]
    [] operation = "/" ->
         IF number2 = 0 THEN [ok |-> FALSE, error |-> "division by zero"]
         ELSE [ok |-> TRUE, value |-> number1 \div number2]
    [] OTHER -> [ok |-> FALSE, error |-> "invalid operation"]

applyOperation_floorAtZero(number1, number2, operation) ==
  CASE operation = "+" -> [ok |-> TRUE, value |-> number1 + number2]
    [] operation = "-" ->
         [ok |-> TRUE, value |-> IF number1 < number2 THEN 0 ELSE number1 - number2]
    [] operation = "*" -> [ok |-> TRUE, value |-> number1 * number2]
    [] operation = "/" ->
         IF number2 = 0 THEN [ok |-> FALSE, error |-> "division by zero"]
         ELSE IF Rem(number1, number2) # 0 THEN [ok |-> FALSE, error |-> "inexact division"]
         ELSE [ok |-> TRUE, value |-> number1 \div number2]
    [] OTHER -> [ok |-> FALSE, error |-> "invalid operation"]

applyOperation(number1, number2, operation) ==
  CASE operation = "+" -> [ok |-> TRUE, value |-> number1 + number2]
    [] operation = "-" -> [ok |-> TRUE, value |-> Abs(number1 - number2)]
    [] operation = "*" -> [ok |-> TRUE, value |-> number1 * number2]
    [] operation = "/" ->
         IF number2 = 0 THEN [ok |-> FALSE, error |-> "division by zero"]
         ELSE IF Rem(number1, number2) # 0 THEN [ok |-> FALSE, error |-> "inexact division"]
         ELSE [ok |-> TRUE, value |-> number1 \div number2]
    [] OTHER -> [ok |-> FALSE, error |-> "invalid operation"]

canDivide_anyNonZero(number1, number2) == number2 # 0

canDivide(number1, number2) ==
  IF number2 = 0 THEN FALSE ELSE Rem(number1, number2) = 0

----------------------------------------------------------------------------
(* Game state machine *)

rollDiceForGame_samePhase(gs, draws) ==
  [gs EXCEPT !.diceResults = rollTwoDice(draws)]

rollDiceForGame(gs, draws) ==
  [gs EXCEPT !.diceResults = rollTwoDice(draws), !.gamePhase = "dice-operation"]

\* !gameState.diceCalculationResult: null and 0 are both falsy
NoDiceCalculationResult(gs) ==
  gs.diceCalculationResult = << >> \/ gs.diceCalculationResult[1] = 0

diceCalculation_swapped(diceResults, operation) ==
  applyOperation(diceResults[2], diceResults[1], operation)

\* applyOperation(dice1, dice2, operation) of applyDiceOperation
diceCalculation(diceResults, operation) ==
  applyOperation(diceResults[1], diceResults[2], operation)

applyDiceOperation_samePhase(gs, operation) ==
  IF gs.diceResults = << >> THEN [ok |-> FALSE, error |-> "no dice rolled yet"]
  ELSE LET r == diceCalculation(gs.diceResults, operation)
       IN  IF ~r.ok THEN r
           ELSE [ok |-> TRUE, state |-> [gs EXCEPT !.diceCalculationResult = <<r.value>>]]

applyDiceOperation_noPrecondition(gs, operation) ==
  IF gs.diceResults = << >>
  THEN [ok |-> TRUE, state |-> [gs EXCEPT !.gamePhase = "final-operation"]]
  ELSE LET r == diceCalculation(gs.diceResults, operation)
       IN  IF ~r.ok THEN r
           ELSE [ok |-> TRUE,
                 state |-> [gs EXCEPT !.diceCalculationResult = <<r.value>>,
                                      !.gamePhase = "final-operation"]]

applyDiceOperation(gs, operation) ==
  IF gs.diceResults = << >> THEN [ok |-> FALSE, error |-> "no dice rolled yet"]
  ELSE LET r == diceCalculation(gs.diceResults, operation)
       IN  IF ~r.ok THEN r
           ELSE [ok |-> TRUE,
                 state |-> [gs EXCEPT !.diceCalculationResult = <<r.value>>,
                                      !.gamePhase = "final-operation"]]

getCurrentPlayer(gs) == gs.players[gs.currentPlayerIndex + 1]

updatedPlayers_everyone(gs, newNumber) ==
  [i \in DOMAIN gs.players |-> [gs.players[i] EXCEPT !.currentNumber = newNumber]]

updatedPlayers(gs, newNumber) ==
  [i \in DOMAIN gs.players |->
     IF gs.players[i].id = getCurrentPlayer(gs).id
     THEN [gs.players[i] EXCEPT !.currentNumber = newNumber]
     ELSE gs.players[i]]

winnerOf_overshoot(gs, newNumber) ==
  IF newNumber >= gs.targetNumber THEN <<getCurrentPlayer(gs)>> ELSE << >>

winnerOf(gs, newNumber) ==
  IF newNumber = gs.targetNumber THEN <<getCurrentPlayer(gs)>> ELSE << >>

nextPlayerIndex_noWrap(gs, winner) ==
  IF winner # << >> THEN gs.currentPlayerIndex
  ELSE IF gs.currentPlayerIndex + 1 < Len(gs.players) THEN gs.currentPlayerIndex + 1
  ELSE gs.currentPlayerIndex

nextPlayerIndex_noModulo(gs, winner) ==
  IF winner # << >> THEN gs.currentPlayerIndex ELSE gs.currentPlayerIndex + 1

nextPlayerIndex(gs, winner) ==
  IF winner # << >> THEN gs.currentPlayerIndex
  ELSE (gs.currentPlayerIndex + 1) % Len(gs.players)

finalMoveState_keepDice(gs, newNumber) ==
  [gs EXCEPT !.players = updatedPlayers(gs, newNumber),
             !.currentPlayerIndex = nextPlayerIndex(gs, winnerOf(gs, newNumber)),
             !.diceCalculationResult = << >>,
             !.winner = winnerOf(gs, newNumber),
             !.gamePhase = "roll"]

\* the state applyFinalMove returns once newNumber is computed
finalMoveState(gs, newNumber) ==
  [gs EXCEPT !.players = updatedPlayers(gs, newNumber),
             !.currentPlayerIndex = nextPlayerIndex(gs, winnerOf(gs, newNumber)),
             !.diceResults = << >>,
             !.diceCalculationResult = << >>,
             !.winner = winnerOf(gs, newNumber),
             !.gamePhase = "roll"]

applyFinalMove(gs, operation) ==
  IF NoDiceCalculationResult(gs)
  THEN [ok |-> FALSE, error |-> "no dice operation performed yet"]
  ELSE LET r == applyOperation(getCurrentPlayer(gs).currentNumber,
                               gs.diceCalculationResult[1], operation)
       IN  IF ~r.ok THEN r ELSE [ok |-> TRUE, state |-> finalMoveState(gs, r.value)]

----------------------------------------------------------------------------
(* Legality queries of the screen, on the gameState of the render they close over *)

canUseDiceOperation(gs, operation) ==
  IF gs.diceResults = << >> THEN FALSE
  ELSE IF operation = "/"
       THEN IF gs.diceResults[2] = 0 THEN FALSE
            ELSE Rem(gs.diceResults[1], gs.diceResults[2]) = 0
       ELSE TRUE

canUseFinalOperation(gs, operation) ==
  IF gs.diceCalculationResult = << >> THEN FALSE
  ELSE IF operation = "/"
       THEN canDivide(getCurrentPlayer(gs).currentNumber, gs.diceCalculationResult[1])
       ELSE TRUE

\* operations.filter(op => canUse...(op)), in the order of the operations array
validDiceOperations(gs) == SelectSeq(Operations, LAMBDA op : canUseDiceOperation(gs, op))

validFinalOperations(gs) == SelectSeq(Operations, LAMBDA op : canUseFinalOperation(gs, op))

----------------------------------------------------------------------------
(* What a step records in lastCall *)

NoCall == [fn |-> "none", op |-> "", ok |-> TRUE, by |-> "none"]

\* the operation is recorded for the calls that returned and for the forced ones
Call(fn, op, ok, by) ==
  [fn |-> fn, op |-> IF ok \/ by = "timer" THEN op ELSE "", ok |-> ok, by |-> by]

----------------------------------------------------------------------------
(* Initial state: NumClashScreen mounted, its mount effect has run           *)
(* initializeNewGame, the name form is open.                                 *)

ScreenInitWith(counts) ==
  /\ playerCount \in counts
  /\ \E targetDraw \in TargetDraws, startDraw \in StartDraws(playerCount) :
       gameState = initializeGame(playerCount, << >>, targetDraw, startDraw)
  /\ showOperationsModal = FALSE
  /\ showPlayerNamesModal = TRUE
  /\ isRolling = FALSE
  /\ rollTimeout = << >>
  /\ isTimerActive = FALSE
  /\ currentTimer = "dice"
  /\ timerRef = << >>
  /\ intervalRef = << >>
  /\ strayIntervals = 0
  /\ winnerAlert = "none"
  /\ turns = 0
  /\ lastCall = NoCall

ScreenInit == ScreenInitWith(PlayerCounts)

Init == ScreenInit /\ arith = << >>

----------------------------------------------------------------------------
(* Direct engine calls, in any order and any phase *)

\* turns after a call of applyFinalMove that ended as r
TurnsAfter(r) == IF r.ok /\ r.state.winner = << >> THEN turns + 1 ELSE turns

EngineRollDice ==
  /\ \E draws \in DiceDraws : gameState' = rollDiceForGame(gameState, draws)
  /\ lastCall' = Call("rollDiceForGame", "", TRUE, "engine")
  /\ UNCHANGED <<uiVars, turns>>

EngineApplyDiceOperation ==
  \E op \in OperationSet :
    LET r == applyDiceOperation(gameState, op)
    IN  /\ gameState' = IF r.ok THEN r.state ELSE gameState
        /\ lastCall' = Call("applyDiceOperation", op, r.ok, "engine")
        /\ UNCHANGED <<uiVars, turns>>

EngineApplyFinalMove ==
  \E op \in OperationSet :
    LET r == applyFinalMove(gameState, op)
    IN  /\ r.ok => turns < MaxEngineMoves
        /\ gameState' = IF r.ok THEN r.state ELSE gameState
        /\ turns' = IF r.ok THEN turns + 1 ELSE turns
        /\ lastCall' = Call("applyFinalMove", op, r.ok, "engine")
        /\ UNCHANGED uiVars

EngineNext == EngineRollDice \/ EngineApplyDiceOperation \/ EngineApplyFinalMove

EngineSpec == Init /\ [][EngineNext]_vars

\* the same calls on the sessions of every player count offered
SessionInit == ScreenInitWith(SeatCounts) /\ arith = << >>

SessionSpec == SessionInit /\ [][EngineNext]_vars

----------------------------------------------------------------------------
(* Direct calls of initializeGame, with any player count and with or      *)
(* without names, and of rollDiceForGame with every pair of dice.         *)

\* customNames: not given, one typed name for every player, a name for the first
\* player and empty strings for the others, or an array that holds one name only
BootNames(count) ==
  {<< >>} \cup {[i \in 1..count |-> name] : name \in NameInputs}
          \cup {[i \in 1..count |-> IF i = 1 THEN name ELSE << >>] : name \in NameInputs}
          \cup {<<name>> : name \in NameInputs}

BootInitializeGame ==
  /\ \E count \in BootCounts :
       /\ playerCount' = count
       /\ \E customNames \in BootNames(count), targetDraw \in TargetDraws,
             startDraw \in StartDraws(count) :
            /\ gameState' = initializeGame(count, customNames, targetDraw, startDraw)
            /\ arith' = <<[customNames |-> customNames]>>
  /\ lastCall' = Call("initializeGame", "", TRUE, "engine")
  /\ UNCHANGED <<showOperationsModal, showPlayerNamesModal, isRolling, rollTimeout,
                 isTimerActive, currentTimer, timerRef, intervalRef, strayIntervals,
                 winnerAlert, turns>>

BootRollDice ==
  /\ \E draws \in AllDiceDraws : gameState' = rollDiceForGame(gameState, draws)
  /\ lastCall' = Call("rollDiceForGame", "", TRUE, "engine")
  /\ UNCHANGED <<uiVars, turns>>

BootNext == BootInitializeGame \/ BootRollDice

BootSpec == Init /\ [][BootNext]_vars

----------------------------------------------------------------------------
(* Direct calls of the arithmetic functions and of the legality queries, on *)
(* operands drawn from Operands.  arith[1] holds the operands and, once the *)
(* function has been called, what it returned.                              *)

ArithInit ==
  /\ ScreenInit
  /\ \E number1 \in Operands, number2 \in Operands, operation \in OperationSet :
       arith = <<[ number1 |-> number1, number2 |-> number2, operation |-> operation,
                   result |-> << >>, divisible |-> << >>,
                   diceLegal |-> << >>, finalLegal |-> << >> ]>>

\* a render in the phase dice-operation whose dice show the operands
WithDice(gs, number1, number2) ==
  [gs EXCEPT !.diceResults = <<number1, number2>>, !.gamePhase = "dice-operation"]

\* a render in the phase final-operation where the player to move holds number1 and
\* the dice operation gave number2
WithFinalOperands(gs, number1, number2) ==
  [gs EXCEPT !.players[gs.currentPlayerIndex + 1].currentNumber = number1,
             !.diceResults = <<1, 1>>,
             !.diceCalculationResult = <<number2>>,
             !.gamePhase = "final-operation"]

screenVars == <<gameState, playerCount, showOperationsModal, showPlayerNamesModal, isRolling,
                rollTimeout, isTimerActive, currentTimer, timerRef, intervalRef,
                strayIntervals, winnerAlert, turns, lastCall>>

ArithApplyOperation ==
  /\ arith[1].result = << >>
  /\ arith' = <<[arith[1] EXCEPT !.result =
                   <<applyOperation(arith[1].number1, arith[1].number2, arith[1].operation)>>]>>
  /\ UNCHANGED screenVars

ArithCanDivide ==
  /\ arith[1].divisible = << >>
  /\ arith' = <<[arith[1] EXCEPT !.divisible =
                   <<canDivide(arith[1].number1, arith[1].number2)>>]>>
  /\ UNCHANGED screenVars

ArithCanUseDiceOperation ==
  /\ arith[1].diceLegal = << >>
  /\ arith' = <<[arith[1] EXCEPT !.diceLegal =
                   <<canUseDiceOperation(
                       WithDice(gameState, arith[1].number1, arith[1].number2),
                       arith[1].operation)>>]>>
  /\ UNCHANGED screenVars

ArithCanUseFinalOperation ==
  /\ arith[1].finalLegal = << >>
  /\ arith' = <<[arith[1] EXCEPT !.finalLegal =
                   <<canUseFinalOperation(
                       WithFinalOperands(gameState, arith[1].number1, arith[1].number2),
                       arith[1].operation)>>]>>
  /\ UNCHANGED screenVars

ArithNext ==
  \/ ArithApplyOperation
  \/ ArithCanDivide
  \/ ArithCanUseDiceOperation
  \/ ArithCanUseFinalOperation

ArithSpec == ArithInit /\ [][ArithNext]_vars

----------------------------------------------------------------------------
(* The two countdown intervals and the effects that start and clear them.  *)
(*                                                                         *)
(* A handler's setState calls are followed by a render and its effects;    *)
(* an effect's own setState calls by one more render.  AfterEffects gives  *)
(* the timer state once that has settled.  `pre` is the screen before the  *)
(* handler, `post` what the handler itself left, gs the gameState it left: *)
(* fields modal (showOperationsModal), phase, active (isTimerActive),      *)
(* timer (currentTimer), tref (timerRef), iref (intervalRef), stray        *)
(* (strayIntervals).                                                       *)

Duration(timer) == IF timer = "dice" THEN DICE_OPERATION_TIMER ELSE FINAL_OPERATION_TIMER

stopTimer_flagOnly(ui) == [ui EXCEPT !.active = FALSE]

stopTimer_toggle(ui) == [ui EXCEPT !.active = ~@, !.tref = << >>]

\* setIsTimerActive(false); if (timerRef.current) { clearInterval(...); timerRef.current = null }
stopTimer(ui) == [ui EXCEPT !.active = FALSE, !.tref = << >>]

\* stopTimer(); setTimeLeft(duration); setIsTimerActive(true); timerRef.current = setInterval(...):
\* the assignment drops the handle timerRef held, and an interval it held goes on running
startTimer(ui, duration) ==
  LET stopped == stopTimer(ui)
  IN  [stopped EXCEPT !.active = TRUE,
                      !.stray = @ + Len(stopped.tref),
                      !.tref = <<duration>>]

\* the effect of NumClashScreen on [showOperationsModal, gameState?.gamePhase]:
\* the cleanup of the previous run, then the body
TimerEffect(pre, post, gs) ==
  IF post.modal = pre.modal /\ gs.gamePhase = pre.phase THEN post
  ELSE LET cleaned == stopTimer(post)
       IN  IF cleaned.modal /\ gs.gamePhase = "dice-operation"
             THEN startTimer([cleaned EXCEPT !.timer = "dice"], DICE_OPERATION_TIMER)
           ELSE IF cleaned.modal /\ gs.gamePhase = "final-operation"
             THEN startTimer([cleaned EXCEPT !.timer = "final"], FINAL_OPERATION_TIMER)
           ELSE IF cleaned.modal THEN cleaned
           ELSE stopTimer(cleaned)

\* the interval LinearProgress sets when isActive: currentProgress = 100,
\* decrementAmount = 100 / duration, onComplete = handleTimeUp of the render, which
\* closes over that render's gameState
NewProgress_shortByOne(gs, duration) ==
  <<[currentProgress |-> 100, decrementAmount |-> 100 \div (duration - 1), onComplete |-> gs]>>

NewProgress(gs, duration) ==
  <<[currentProgress |-> 100, decrementAmount |-> 100 \div duration, onComplete |-> gs]>>

ProgressEffect_keepInterval(before, now, iref, gs) ==
  IF ~now.modal THEN << >>
  ELSE IF iref # << >> THEN iref
  ELSE IF now.active THEN NewProgress(gs, Duration(now.timer))
  ELSE << >>

ProgressEffect_ignoreActive(before, now, iref, gs) ==
  IF ~now.modal THEN << >>
  ELSE IF (~before.modal) \/ now.active # before.active
            \/ Duration(now.timer) # Duration(before.timer)
       THEN NewProgress(gs, Duration(now.timer))
       ELSE iref

\* the effect of LinearProgress on [isActive, duration] in a render showing `now`
\* after one showing `before`; LinearProgress is mounted while the modal is visible
ProgressEffect(before, now, iref, gs) ==
  IF ~now.modal THEN << >>
  ELSE IF (~before.modal) \/ now.active # before.active
            \/ Duration(now.timer) # Duration(before.timer)
       THEN IF now.active THEN NewProgress(gs, Duration(now.timer)) ELSE << >>
       ELSE iref

\* the render after the handler with its effects, then the render after those
AfterEffects(pre, post, gs) ==
  LET second == TimerEffect(pre, post, gs)
  IN  [second EXCEPT
         !.iref = ProgressEffect(post, second, ProgressEffect(pre, post, post.iref, gs), gs)]

\* the screen as the current render shows it
Screen ==
  [ modal |-> showOperationsModal, phase |-> gameState.gamePhase,
    active |-> isTimerActive, timer |-> currentTimer,
    tref |-> timerRef, iref |-> intervalRef, stray |-> strayIntervals ]

\* the handler left gameState' and `post`: settle the effects and set the timer variables
Settle(post) ==
  \E final \in {AfterEffects(Screen, post, gameState')} :
      /\ showOperationsModal' = final.modal
      /\ isTimerActive' = final.active
      /\ currentTimer' = final.timer
      /\ timerRef' = final.tref
      /\ intervalRef' = final.iref
      /\ strayIntervals' = final.stray

\* ticks each interval has made since it was set
CountdownTicks == Duration(currentTimer) - timerRef[1]

ProgressTicks ==
  (100 - intervalRef[1].currentProgress) \div intervalRef[1].decrementAmount

----------------------------------------------------------------------------
(* Handlers of NumClashScreen *)

\* try { const s = apply...(gameState, op); setGameState(s); ... } catch { report }:
\* the gameState the screen holds afterwards
tryResult_abortTurn(current, r) ==
  IF r.ok THEN r.state
  ELSE [current EXCEPT !.diceResults = << >>, !.diceCalculationResult = << >>,
                       !.gamePhase = "roll"]

tryResult(current, r) == IF r.ok THEN r.state ELSE current

\* if (newGameState.winner) setTimeout(() => Alert.alert(...), 500)
AlertAfter(gs) ==
  IF gs.winner = << >> THEN winnerAlert
  ELSE IF winnerAlert = "shown" THEN "shown" ELSE "pending"

\* the touchables of the screen are reachable: no name form, no winner dialog over them
Touchable == ~showPlayerNamesModal /\ winnerAlert # "shown"

startGameWithNames ==
  /\ showPlayerNamesModal
  /\ winnerAlert # "shown"
  /\ \E playerNames \in [1..playerCount -> NameInputs],
        targetDraw \in TargetDraws, startDraw \in StartDraws(playerCount) :
       IF \E i \in 1..playerCount : Trim(playerNames[i]) = << >>
       THEN UNCHANGED <<gameState, showPlayerNamesModal>>
       ELSE /\ showPlayerNamesModal' = FALSE
            /\ gameState' = initializeGame(playerCount, playerNames, targetDraw, startDraw)
  /\ Settle(Screen)
  /\ lastCall' = NoCall
  /\ UNCHANGED <<arith, playerCount, isRolling, rollTimeout, winnerAlert, turns>>

rollDiceAction_noGuard ==
  /\ Touchable /\ ~showOperationsModal
  /\ turns < MaxTurns
  /\ isRolling' = TRUE
  /\ rollTimeout' = <<gameState>>
  /\ lastCall' = NoCall
  /\ UNCHANGED <<gameState, arith, playerCount, showOperationsModal, showPlayerNamesModal,
                 isTimerActive, currentTimer, timerRef, intervalRef, strayIntervals,
                 winnerAlert, turns>>

\* the tap on the dice: up to the setTimeout, which closes over this render's gameState
rollDiceAction ==
  /\ Touchable /\ ~showOperationsModal
  /\ ~isRolling /\ gameState.gamePhase = "roll"
  /\ turns < MaxTurns
  /\ isRolling' = TRUE
  /\ rollTimeout' = <<gameState>>
  /\ lastCall' = NoCall
  /\ UNCHANGED <<gameState, arith, playerCount, showOperationsModal, showPlayerNamesModal,
                 isTimerActive, currentTimer, timerRef, intervalRef, strayIntervals,
                 winnerAlert, turns>>

\* the setTimeout callback of rollDiceAction, one second after the tap; a winner
\* dialog still pending was scheduled before the tap with half the delay, so it is up first
rollDiceTimeout ==
  /\ rollTimeout # << >>
  /\ winnerAlert # "pending"
  /\ \E draws \in DiceDraws : gameState' = rollDiceForGame(rollTimeout[1], draws)
  /\ isRolling' = FALSE
  /\ rollTimeout' = << >>
  /\ Settle([Screen EXCEPT !.modal = TRUE])
  /\ lastCall' = Call("rollDiceForGame", "", TRUE, "human")
  /\ UNCHANGED <<arith, playerCount, showPlayerNamesModal, winnerAlert, turns>>

selectDiceOperation_anyPhase ==
  /\ Touchable /\ showOperationsModal
  /\ gameState.diceResults # << >>
  /\ \E op \in OperationSet :
       /\ op = "/" => /\ gameState.diceResults[2] # 0
                      /\ Rem(gameState.diceResults[1], gameState.diceResults[2]) = 0
       /\ \E r \in {applyDiceOperation(gameState, op)} :
            /\ gameState' = tryResult(gameState, r)
            /\ Settle(IF r.ok THEN stopTimer(Screen) ELSE Screen)
            /\ lastCall' = Call("applyDiceOperation", op, r.ok, "human")
  /\ UNCHANGED <<arith, playerCount, showPlayerNamesModal, isRolling, rollTimeout, winnerAlert,
                 turns>>

\* an operation button of the dice-operation phase; the early returns are the guard
selectDiceOperation ==
  /\ Touchable /\ showOperationsModal
  /\ gameState.diceResults # << >> /\ gameState.gamePhase = "dice-operation"
  /\ \E op \in OperationSet :
       /\ op = "/" => /\ gameState.diceResults[2] # 0
                      /\ Rem(gameState.diceResults[1], gameState.diceResults[2]) = 0
       /\ \E r \in {applyDiceOperation(gameState, op)} :
            /\ gameState' = tryResult(gameState, r)
            /\ Settle(IF r.ok THEN stopTimer(Screen) ELSE Screen)
            /\ lastCall' = Call("applyDiceOperation", op, r.ok, "human")
  /\ UNCHANGED <<arith, playerCount, showPlayerNamesModal, isRolling, rollTimeout, winnerAlert,
                 turns>>

\* an operation button of the final-operation phase; the early returns are the guard
selectFinalOperation ==
  /\ Touchable /\ showOperationsModal
  /\ gameState.diceCalculationResult # << >> /\ gameState.gamePhase = "final-operation"
  /\ \E op \in OperationSet :
       /\ op = "/" => canDivide(getCurrentPlayer(gameState).currentNumber,
                                gameState.diceCalculationResult[1])
       /\ \E r \in {applyFinalMove(gameState, op)} :
            /\ gameState' = tryResult(gameState, r)
            /\ Settle(IF r.ok THEN stopTimer([Screen EXCEPT !.modal = FALSE]) ELSE Screen)
            /\ winnerAlert' = IF r.ok THEN AlertAfter(r.state) ELSE winnerAlert
            /\ turns' = TurnsAfter(r)
            /\ lastCall' = Call("applyFinalMove", op, r.ok, "human")
  /\ UNCHANGED <<arith, playerCount, showPlayerNamesModal, isRolling, rollTimeout>>

\* onRequestClose of the operations modal (the back button)
closeOperationsModal ==
  /\ Touchable /\ showOperationsModal
  /\ Settle([Screen EXCEPT !.modal = FALSE])
  /\ lastCall' = NoCall
  /\ UNCHANGED <<gameState, arith, playerCount, showPlayerNamesModal, isRolling, rollTimeout,
                 winnerAlert, turns>>

\* the interval callback of startTimer.  Both intervals run every 1000 ms and this one
\* is set first, so each second it fires before the one of LinearProgress.
countdownTick ==
  /\ timerRef # << >>
  /\ intervalRef # << >> => CountdownTicks <= ProgressTicks
  /\ timerRef' = <<timerRef[1] - 1>>
  /\ lastCall' = NoCall
  /\ UNCHANGED <<gameState, arith, playerCount, showOperationsModal, showPlayerNamesModal,
                 isRolling, rollTimeout, isTimerActive, currentTimer, intervalRef,
                 strayIntervals, winnerAlert, turns>>

ProgressDue ==
  /\ intervalRef # << >>
  /\ timerRef # << >> => ProgressTicks < CountdownTicks

\* the interval callback of LinearProgress while currentProgress stays above 0
progressTick ==
  /\ ProgressDue
  /\ intervalRef[1].currentProgress - intervalRef[1].decrementAmount > 0
  /\ intervalRef' = <<[intervalRef[1] EXCEPT
                         !.currentProgress = @ - intervalRef[1].decrementAmount]>>
  /\ lastCall' = NoCall
  /\ UNCHANGED <<gameState, arith, playerCount, showOperationsModal, showPlayerNamesModal,
                 isRolling, rollTimeout, isTimerActive, currentTimer, timerRef,
                 strayIntervals, winnerAlert, turns>>

ForcedChoices_anyOperation(gs) == OperationSet

\* the operations handleTimeUp may pick, on the gameState it closes over: one of the
\* valid ones, or none ("") when it forces no move
ForcedChoices(gs) ==
  LET valid == IF gs.gamePhase = "dice-operation" /\ gs.diceResults # << >>
                 THEN validDiceOperations(gs)
               ELSE IF gs.gamePhase = "final-operation" /\ gs.diceCalculationResult # << >>
                 THEN validFinalOperations(gs)
               ELSE << >>
  IN  IF Len(valid) > 0 THEN {valid[k + 1] : k \in 0..(Len(valid) - 1)} ELSE {""}

\* handleTimeUp on the gameState gs it closes over, with the operation it drew
handleTimeUp(gs, op) ==
  \E stopped \in {stopTimer([Screen EXCEPT !.iref = << >>])} :
      IF op = ""
        THEN /\ UNCHANGED <<gameState, winnerAlert, turns>>
             /\ Settle(stopped)
             /\ lastCall' = Call("none", "", TRUE, "timer")
      ELSE IF gs.gamePhase = "dice-operation"
        THEN \E r \in {applyDiceOperation(gs, op)} :
                 /\ gameState' = tryResult(gameState, r)
                 /\ Settle(stopped)
                 /\ lastCall' = Call("applyDiceOperation", op, r.ok, "timer")
                 /\ UNCHANGED <<winnerAlert, turns>>
      ELSE \E r \in {applyFinalMove(gs, op)} :
               /\ gameState' = tryResult(gameState, r)
               /\ Settle(IF r.ok THEN [stopped EXCEPT !.modal = FALSE] ELSE stopped)
               /\ winnerAlert' = IF r.ok THEN AlertAfter(r.state) ELSE winnerAlert
               /\ turns' = TurnsAfter(r)
               /\ lastCall' = Call("applyFinalMove", op, r.ok, "timer")

\* the interval callback of LinearProgress when currentProgress reaches 0:
\* clearInterval, then onComplete()
progressComplete ==
  /\ ProgressDue
  /\ intervalRef[1].currentProgress - intervalRef[1].decrementAmount <= 0
  /\ \E op \in ForcedChoices(intervalRef[1].onComplete) :
       handleTimeUp(intervalRef[1].onComplete, op)
  /\ UNCHANGED <<arith, playerCount, showPlayerNamesModal, isRolling, rollTimeout>>

\* the setTimeout of 500 ms that opens the winner dialog
winnerAlertShown ==
  /\ winnerAlert = "pending"
  /\ winnerAlert' = "shown"
  /\ lastCall' = NoCall
  /\ UNCHANGED <<gameState, arith, playerCount, showOperationsModal, showPlayerNamesModal,
                 isRolling, rollTimeout, isTimerActive, currentTimer, timerRef,
                 intervalRef, strayIntervals, turns>>

\* the dialog's "Yeni Oyun" button
initializeNewGame ==
  /\ winnerAlert = "shown"
  /\ \E targetDraw \in TargetDraws, startDraw \in StartDraws(playerCount) :
       gameState' = initializeGame(playerCount, << >>, targetDraw, startDraw)
  /\ Settle(stopTimer([Screen EXCEPT !.modal = FALSE]))
  /\ winnerAlert' = "none"
  /\ lastCall' = Call("initializeGame", "", TRUE, "human")
  /\ UNCHANGED <<arith, playerCount, showPlayerNamesModal, isRolling, rollTimeout, turns>>

Next ==
  \/ startGameWithNames
  \/ rollDiceAction
  \/ rollDiceTimeout
  \/ selectDiceOperation
  \/ selectFinalOperation
  \/ closeOperationsModal
  \/ countdownTick
  \/ progressTick
  \/ progressComplete
  \/ winnerAlertShown
  \/ initializeNewGame

Spec == Init /\ [][Next]_vars

\* the screen when the player never selects an operation: only the roll, the
\* timers and the winner dialog act, and every scheduled callback runs
TimerNext ==
  \/ startGameWithNames
  \/ rollDiceAction
  \/ rollDiceTimeout
  \/ countdownTick
  \/ progressTick
  \/ progressComplete
  \/ winnerAlertShown
  \/ initializeNewGame

TimerSpec ==
  /\ Init
  /\ [][TimerNext]_vars
  /\ WF_vars(rollDiceTimeout)
  /\ WF_vars(countdownTick)
  /\ WF_vars(progressTick)
  /\ WF_vars(progressComplete)
  /\ WF_vars(winnerAlertShown)

----------------------------------------------------------------------------
(* Properties.  lastCall' describes the step taken, so an action formula    *)
(* reads the state the call was made on unprimed and its outcome primed.    *)

\* the arithmetic the specification states, written out independently of applyOperation
Expected(a, b, op) ==
  CASE op = "+" -> a + b
    [] op = "-" -> IF a >= b THEN a - b ELSE b - a
    [] op = "*" -> a * b
    [] op = "/" -> a \div b

FinalMoveReturned == lastCall.fn = "applyFinalMove" /\ lastCall.ok

\* the player whose turn it is, the number that player holds, the dice result
Acting == gameState.currentPlayerIndex + 1

ActingNumber == gameState.players[Acting].currentNumber

\* the number a final move with the operation of the step makes of them
NewNumber == Expected(ActingNumber, gameState.diceCalculationResult[1], lastCall'.op)

\* C1: in every state in phase final-operation with a dice result present (0
\* included), applyFinalMove succeeds for each of +, - and *.
C1_FinalMoveAlwaysLegal ==
  (gameState.gamePhase = "final-operation" /\ gameState.diceCalculationResult # << >>)
    => \A op \in {"+", "-", "*"} : applyFinalMove(gameState, op).ok

\* C2: a final move that returns with newNumber = targetNumber sets winner to the
\* acting player and keeps currentPlayerIndex; with any other newNumber (above the
\* target included) it leaves winner absent.
C2_WinDetection ==
  [][ FinalMoveReturned' =>
        IF NewNumber = gameState.targetNumber
        THEN /\ gameState'.winner # << >>
             /\ gameState'.winner[1].id = gameState.players[Acting].id
             /\ gameState'.currentPlayerIndex = gameState.currentPlayerIndex
        ELSE gameState'.winner = << >> ]_vars

C2_Witness == FinalMoveReturned /\ gameState.winner # << >>

\* C3: a final move that returns without reaching the target passes the turn to
\* seat (old + 1) mod playerCount, gives the acting player the number
\* apply(oldNumber, diceCalculationResult, op) and leaves every other player's number.
C3_TurnAdvancement ==
  [][ (FinalMoveReturned' /\ NewNumber # gameState.targetNumber) =>
        /\ gameState'.currentPlayerIndex =
             (gameState.currentPlayerIndex + 1) % Len(gameState.players)
        /\ Len(gameState'.players) = Len(gameState.players)
        /\ \A i \in 1..Len(gameState.players) :
             gameState'.players[i].currentNumber =
               IF i = Acting THEN NewNumber ELSE gameState.players[i].currentNumber ]_vars

\* the turn has passed from the last seat back to the first
C3_Witness ==
  FinalMoveReturned /\ gameState.winner = << >> /\ gameState.currentPlayerIndex = 0

\* C4: once winner is set, no roll, dice operation or final move is applied to the
\* state of that session.
C4_TerminalAfterWin ==
  [][ gameState.winner # << >> =>
        lastCall'.fn \notin {"rollDiceForGame", "applyDiceOperation", "applyFinalMove"} ]_vars

\* C5: with no selection by the player, an open operation phase always leads back
\* to phase roll.
C5_ForcedMoveLiveness ==
  []((showOperationsModal
        /\ gameState.gamePhase \in {"dice-operation", "final-operation"})
       => <>(gameState.gamePhase = "roll"))

\* C6: an engine call made in a phase other than its own fails and leaves the
\* GameState as it was.
C6_WrongPhaseRejected ==
  [][ (\/ lastCall'.fn = "rollDiceForGame" /\ gameState.gamePhase # "roll"
       \/ lastCall'.fn = "applyDiceOperation" /\ gameState.gamePhase # "dice-operation"
       \/ lastCall'.fn = "applyFinalMove" /\ gameState.gamePhase # "final-operation")
      => (~lastCall'.ok /\ gameState' = gameState) ]_vars

\* C7: whenever applyDiceOperation or applyFinalMove fails, called for the player
\* or for the timer, the screen holds the same GameState afterwards.
C7_AllOrNothing ==
  [][ (lastCall'.fn \in {"applyDiceOperation", "applyFinalMove"} /\ ~lastCall'.ok)
      => gameState' = gameState ]_vars

\* a forced final move has failed
C7_Witness == lastCall.fn = "applyFinalMove" /\ ~lastCall.ok /\ lastCall.by = "timer"

\* C8: rollDice on a state in phase roll sets diceResults to a pair and gamePhase to
\* dice-operation and leaves players, currentPlayerIndex, targetNumber and winner.
C8_RollFrame ==
  [][ (lastCall'.fn = "rollDiceForGame" /\ gameState.gamePhase = "roll") =>
        /\ Len(gameState'.diceResults) = 2
        /\ gameState'.gamePhase = "dice-operation"
        /\ gameState'.players = gameState.players
        /\ gameState'.currentPlayerIndex = gameState.currentPlayerIndex
        /\ gameState'.targetNumber = gameState.targetNumber
        /\ gameState'.winner = gameState.winner ]_vars

C8_Witness ==
  /\ lastCall.fn = "rollDiceForGame"
  /\ gameState.diceResults # << >>
  /\ gameState.diceCalculationResult = << >>
  /\ turns = 0

\* C9: a dice operation that returns stores apply(die1, die2, op), die 1 first,
\* sets gamePhase to final-operation and leaves diceResults, players,
\* currentPlayerIndex, targetNumber and winner.
C9_DiceOperation ==
  [][ (lastCall'.fn = "applyDiceOperation" /\ lastCall'.ok) =>
        /\ gameState.diceResults # << >>
        /\ lastCall'.op = "/" =>
             gameState.diceResults[1] % gameState.diceResults[2] = 0
        /\ gameState'.diceCalculationResult =
             <<Expected(gameState.diceResults[1], gameState.diceResults[2], lastCall'.op)>>
        /\ gameState'.gamePhase = "final-operation"
        /\ gameState'.diceResults = gameState.diceResults
        /\ gameState'.players = gameState.players
        /\ gameState'.currentPlayerIndex = gameState.currentPlayerIndex
        /\ gameState'.targetNumber = gameState.targetNumber
        /\ gameState'.winner = gameState.winner ]_vars

\* 6 / 3 has been stored as 2
C9_Witness ==
  /\ lastCall.fn = "applyDiceOperation" /\ lastCall.ok /\ lastCall.op = "/"
  /\ gameState.diceResults = <<6, 3>>
  /\ gameState.diceCalculationResult = <<2>>

\* C10: every final move that returns, winning or not, leaves gamePhase = roll and
\* both diceResults and diceCalculationResult absent.
C10_FinalMoveClears ==
  FinalMoveReturned =>
    /\ gameState.gamePhase = "roll"
    /\ gameState.diceResults = << >>
    /\ gameState.diceCalculationResult = << >>

C10_Witness == FinalMoveReturned /\ gameState.winner = << >> /\ gameState.gamePhase = "roll"

\* C11: in every state the screen's handlers reach, diceResults is present exactly
\* in the phases dice-operation and final-operation, and diceCalculationResult
\* exactly in the phase final-operation.
C11_PhaseDataConsistency ==
  /\ gameState.diceResults # << >>
       <=> gameState.gamePhase \in {"dice-operation", "final-operation"}
  /\ gameState.diceCalculationResult # << >> <=> gameState.gamePhase = "final-operation"

\* a forced dice operation has brought the game to the phase final-operation
C11_Witness ==
  /\ lastCall.fn = "applyDiceOperation" /\ lastCall.by = "timer"
  /\ gameState.gamePhase = "final-operation"
  /\ gameState.diceResults # << >> /\ gameState.diceCalculationResult # << >>

\* the operands of the direct call and what applyOperation returned for them
Number1 == arith[1].number1

Number2 == arith[1].number2

Applied == arith[1].result # << >>

\* b divides a: a is a whole multiple of b
Divides(b, a) == \E q \in (-Abs(a))..Abs(a) : q * b = a

\* C12: for all integers a, b of the range, apply(a, b, '+') = a + b,
\* apply(a, b, '*') = a * b and apply(a, b, '-') = |a - b|, which is never negative
\* and the same for both orders of the operands.
C12_AddSubtractMultiply ==
  (Applied /\ arith[1].operation \in {"+", "-", "*"}) =>
    /\ arith[1].result[1].ok
    /\ arith[1].result[1].value = Expected(Number1, Number2, arith[1].operation)
    /\ arith[1].operation = "-" =>
         /\ arith[1].result[1].value >= 0
         /\ arith[1].result[1].value \in {Number1 - Number2, Number2 - Number1}
         /\ applyOperation(Number2, Number1, "-") = arith[1].result[1]

\* -3 "-" 4 has given 7
C12_Witness ==
  /\ Applied /\ arith[1].operation = "-"
  /\ Number1 < 0 /\ Number2 > 0
  /\ arith[1].result[1].value = Number2 - Number1

\* C13: apply(a, 0, '/') fails; apply(a, b, '/') fails when b does not divide a; in
\* every other case it returns the exact quotient.
C13_Division ==
  (Applied /\ arith[1].operation = "/") =>
    IF Number2 = 0 \/ ~Divides(Number2, Number1)
    THEN ~arith[1].result[1].ok
    ELSE /\ arith[1].result[1].ok
         /\ arith[1].result[1].value * Number2 = Number1

\* -6 / 3 has given -2
C13_Witness ==
  /\ Applied /\ arith[1].operation = "/"
  /\ Number1 < 0 /\ Number2 > 1
  /\ arith[1].result[1].ok /\ arith[1].result[1].value < -1

\* C14: canDivide(a, b) is true exactly when apply(a, b, '/') succeeds, and
\* canUseDiceOperation(op) / canUseFinalOperation(op) are true exactly when apply
\* succeeds on the operands of the phase (false while the operands are absent).
C14_LegalityMatchesApply ==
  /\ arith[1].divisible # << >> =>
       (arith[1].divisible[1] <=> applyOperation(Number1, Number2, "/").ok)
  /\ arith[1].diceLegal # << >> =>
       (arith[1].diceLegal[1] <=> applyOperation(Number1, Number2, arith[1].operation).ok)
  /\ arith[1].finalLegal # << >> =>
       (arith[1].finalLegal[1] <=> applyOperation(Number1, Number2, arith[1].operation).ok)
  /\ (Applied /\ arith[1].operation = "/" /\ arith[1].divisible # << >>) =>
       (arith[1].divisible[1] <=> arith[1].result[1].ok)
  /\ gameState.diceResults = << >> => ~canUseDiceOperation(gameState, arith[1].operation)
  /\ gameState.diceCalculationResult = << >> =>
       ~canUseFinalOperation(gameState, arith[1].operation)

\* an inexact division: refused by canDivide and by both queries, and apply has failed
C14_Witness ==
  /\ arith[1].operation = "/" /\ Number2 # 0
  /\ arith[1].divisible = <<FALSE>>
  /\ arith[1].diceLegal = <<FALSE>> /\ arith[1].finalLegal = <<FALSE>>
  /\ Applied /\ ~arith[1].result[1].ok

\* C15: applyDiceOperation called on a state without diceResults fails with the
\* error "no dice rolled yet" for every operation, and applyFinalMove called on a
\* state without diceCalculationResult fails with "no dice operation performed yet"
\* for every operation.
C15_PreconditionErrors ==
  [][ /\ (lastCall'.fn = "applyDiceOperation" /\ gameState.diceResults = << >>) =>
           /\ ~lastCall'.ok /\ gameState' = gameState
           /\ \A op \in OperationSet :
                applyDiceOperation(gameState, op) =
                  [ok |-> FALSE, error |-> "no dice rolled yet"]
      /\ (lastCall'.fn = "applyFinalMove" /\ gameState.diceCalculationResult = << >>) =>
           /\ ~lastCall'.ok /\ gameState' = gameState
           /\ \A op \in OperationSet :
                applyFinalMove(gameState, op) =
                  [ok |-> FALSE, error |-> "no dice operation performed yet"] ]_vars

\* applyFinalMove has been called right after a roll and has failed
C15_Witness ==
  /\ lastCall.fn = "applyFinalMove" /\ ~lastCall.ok
  /\ gameState.diceResults # << >> /\ gameState.diceCalculationResult = << >>

\* C16: a forced move is made with one of the four operations, in the phase the
\* game is in and on its operands, and with '/' only when the divisor is not 0 and
\* divides exactly; the timer never finds the set of candidates empty.
C16_ForcedMoveLegal ==
  [][ lastCall'.by = "timer" =>
        /\ lastCall'.fn \in {"applyDiceOperation", "applyFinalMove"}
        /\ lastCall'.op \in OperationSet
        /\ lastCall'.fn = "applyDiceOperation" =>
             /\ gameState.gamePhase = "dice-operation" /\ gameState.diceResults # << >>
             /\ lastCall'.op = "/" =>
                  /\ gameState.diceResults[2] # 0
                  /\ Divides(gameState.diceResults[2], gameState.diceResults[1])
        /\ lastCall'.fn = "applyFinalMove" =>
             /\ gameState.gamePhase = "final-operation"
             /\ gameState.diceCalculationResult # << >>
             /\ lastCall'.op = "/" =>
                  /\ gameState.diceCalculationResult[1] # 0
                  /\ Divides(gameState.diceCalculationResult[1], ActingNumber) ]_vars

\* the timer has forced a division as the final move
C16_Witness ==
  /\ lastCall.by = "timer" /\ lastCall.fn = "applyFinalMove"
  /\ lastCall.op = "/" /\ lastCall.ok

\* a countdown has just been started: both intervals are set and neither has ticked
CountdownStarted ==
  /\ isTimerActive
  /\ timerRef = <<Duration(currentTimer)>>
  /\ intervalRef # << >> /\ intervalRef[1].currentProgress = 100

CountdownStopped == ~isTimerActive /\ timerRef = << >> /\ intervalRef = << >>

\* C17: handleTimeUp is called only on the last tick of a countdown, and the call
\* leaves the countdown stopped, or started anew by the timer effect for the phase
\* the forced move led to, so one countdown calls it once.  A countdown that is
\* started and left to run (no new game cancels it) does expire: that of the dice
\* operation into the one of the final operation, and that one into the forced
\* final move.
C17_ExpiryOnce ==
  /\ [][ lastCall'.by = "timer" =>
            /\ timerRef = <<0>>
            /\ intervalRef # << >>
            /\ intervalRef[1].currentProgress = intervalRef[1].decrementAmount
            /\ IF showOperationsModal' /\ gameState'.gamePhase # gameState.gamePhase
               THEN CountdownStarted'
               ELSE CountdownStopped' ]_vars
  /\ CountdownStarted
       ~> \/ lastCall.by = "timer" /\ lastCall.fn = "applyFinalMove"
          \/ lastCall.fn = "initializeGame"

\* the countdown of the final operation has expired and nothing has started it again
C17_Witness ==
  /\ lastCall.by = "timer" /\ lastCall.fn = "applyFinalMove"
  /\ CountdownStopped

\* the countdown intervals of startTimer that are running
LiveCountdowns == Len(timerRef) + strayIntervals

\* C18: in every state at most one countdown interval is running: no interval
\* outlives the start of the next one, and the one running is the countdown of the
\* phase the game is in, shown in the open operations modal.
C18_NoOverlappingCountdowns ==
  /\ LiveCountdowns <= 1
  /\ strayIntervals = 0
  /\ timerRef # << >> =>
       /\ showOperationsModal /\ isTimerActive
       /\ currentTimer = "dice" <=> gameState.gamePhase = "dice-operation"
       /\ currentTimer = "final" <=> gameState.gamePhase = "final-operation"

\* the player chose a dice operation while the dice countdown was running, and the
\* countdown of the final operation runs alone
C18_Witness ==
  /\ lastCall.fn = "applyDiceOperation" /\ lastCall.by = "human"
  /\ currentTimer = "final" /\ timerRef = <<FINAL_OPERATION_TIMER>>
  /\ LiveCountdowns = 1

\* a selection of the player has been applied in this step
SelectionApplied ==
  /\ lastCall.by = "human" /\ lastCall.ok
  /\ lastCall.fn \in {"applyDiceOperation", "applyFinalMove"}

\* C19: once a selection of the player has advanced the phase, the expiry callback
\* set before it is gone: the only callback that can fire is one set afterwards on
\* the new state, so an expiry always acts on the current GameState, in its phase,
\* and never brings back a state from before the selection.
C19_NoStaleExpiry ==
  [][ /\ SelectionApplied' =>
           \/ intervalRef' = << >>
           \/ /\ intervalRef'[1].onComplete = gameState'
              /\ intervalRef'[1].currentProgress = 100
      /\ lastCall'.by = "timer" =>
           /\ intervalRef[1].onComplete = gameState
           /\ lastCall'.fn = "applyDiceOperation" => gameState.gamePhase = "dice-operation"
           /\ lastCall'.fn = "applyFinalMove" => gameState.gamePhase = "final-operation" ]_vars

\* the player chose a dice operation after the dice countdown had ticked, and the
\* callback waiting to fire is the one of the final operation
C19_Witness ==
  /\ SelectionApplied /\ lastCall.fn = "applyDiceOperation"
  /\ gameState.gamePhase = "final-operation"
  /\ intervalRef # << >> /\ intervalRef[1].onComplete = gameState

\* C20: stopTimer on a screen with no countdown leaves it as it is, and a second
\* stopTimer changes nothing the first has done: the new game stops a timer that
\* may be stopped already, and a final move of the player stops it three times
\* in a row (the handler, the cleanup of the timer effect, the effect itself).
C20_StopIdempotent ==
  [][ /\ stopTimer(stopTimer(Screen)) = stopTimer(Screen)
      /\ ~stopTimer(Screen).active /\ stopTimer(Screen).tref = << >>
      /\ (~isTimerActive /\ timerRef = << >>) => stopTimer(Screen) = Screen
      /\ (lastCall'.fn = "initializeGame" \/ (SelectionApplied' /\ FinalMoveReturned')) =>
           (~isTimerActive' /\ timerRef' = << >> /\ strayIntervals' = strayIntervals) ]_vars

\* a new game has been started from the winner dialog, where no countdown ran
C20_Witness ==
  /\ lastCall.fn = "initializeGame"
  /\ ~isTimerActive /\ timerRef = << >> /\ winnerAlert = "none"

\* C21: targetNumber lies in 50..500 from the start of the session and no call of
\* rollDiceForGame, applyDiceOperation or applyFinalMove changes it.
C21_TargetConstant ==
  /\ [](gameState.targetNumber \in MIN_TARGET..MAX_TARGET)
  /\ [][ lastCall'.fn \in {"rollDiceForGame", "applyDiceOperation", "applyFinalMove"} =>
            gameState'.targetNumber = gameState.targetNumber ]_vars

\* a final move has been applied in a session whose target is the largest there is
C21_Witness == FinalMoveReturned /\ gameState.targetNumber = MAX_TARGET

\* C22: in every state of a session of 2, 3 or 4 players, currentPlayerIndex is an
\* index of players: 0 <= currentPlayerIndex < number of players.
C22_ValidPlayerIndex ==
  /\ Len(gameState.players) = playerCount
  /\ gameState.currentPlayerIndex \in 0..(Len(gameState.players) - 1)

\* in a game of four the turn has passed from the last seat to the first
C22_Witness ==
  /\ FinalMoveReturned /\ gameState.winner = << >>
  /\ Len(gameState.players) = 4 /\ gameState.currentPlayerIndex = 0

\* C23: no engine call changes the number or order of the players or a player's
\* id, name or colour, and a player's currentNumber changes only in a final move
\* that returns, made while that player is the current player.
C23_PlayersFrame ==
  [][ /\ Len(gameState'.players) = Len(gameState.players)
      /\ \A i \in 1..Len(gameState.players) :
           /\ gameState'.players[i].id = gameState.players[i].id
           /\ gameState'.players[i].name = gameState.players[i].name
           /\ gameState'.players[i].color = gameState.players[i].color
           /\ gameState'.players[i].currentNumber # gameState.players[i].currentNumber
                => (FinalMoveReturned' /\ i = Acting) ]_vars

\* a final move has changed the number of the player who made it and of no other
C23_Witness ==
  /\ FinalMoveReturned
  /\ Cardinality({i \in 1..Len(gameState.players) :
                    gameState.players[i].currentNumber # INITIAL_PLAYER_NUMBER}) = 1

\* C24: whenever diceResults is present it is a pair of integers from 1 to 6.
C24_DiceInRange ==
  gameState.diceResults # << >> =>
    /\ Len(gameState.diceResults) = 2
    /\ \A k \in 1..2 : gameState.diceResults[k] \in 1..6

\* the smallest and the largest draw have been rolled together
C24_Witness == lastCall.fn = "rollDiceForGame" /\ gameState.diceResults = <<1, 6>>

InitializeGameReturned == lastCall.fn = "initializeGame" /\ lastCall.ok

\* C25: initializeGame(playerCount) with playerCount in 2..4 returns playerCount
\* players with the ids 1..playerCount in seat order, each holding 5 and a colour
\* of its own, gamePhase roll, no diceResults, no diceCalculationResult, no winner
\* and currentPlayerIndex in 0..playerCount - 1.
C25_InitializeGame ==
  (InitializeGameReturned /\ playerCount \in 2..4) =>
    /\ Len(gameState.players) = playerCount
    /\ \A i \in 1..playerCount :
         /\ gameState.players[i].id = i
         /\ gameState.players[i].currentNumber = 5
         /\ gameState.players[i].color # "undefined"
         /\ \A j \in 1..playerCount :
              i # j => gameState.players[i].color # gameState.players[j].color
    /\ gameState.gamePhase = "roll"
    /\ gameState.diceResults = << >>
    /\ gameState.diceCalculationResult = << >>
    /\ gameState.winner = << >>
    /\ gameState.currentPlayerIndex \in 0..(playerCount - 1)

\* a game of four has been set up with the last seat to start
C25_Witness ==
  /\ InitializeGameReturned /\ playerCount = 4
  /\ Len(gameState.players) = 4 /\ gameState.currentPlayerIndex = 3

\* C26: initializeGame called with a player count outside 2..4 fails and returns no
\* GameState.
C26_RejectsPlayerCount ==
  (lastCall.fn = "initializeGame" /\ playerCount \notin 2..4) => ~lastCall.ok

\* what the dice operations that succeed give on the 36 pairs of dice
AllDiceResults ==
  {applyOperation(x[1], x[2], x[3]).value :
     x \in {y \in (1..6) \X (1..6) \X OperationSet : applyOperation(y[1], y[2], y[3]).ok}}

\* C27: in every state every player's currentNumber is 0 or more, and
\* diceCalculationResult, when present, is in 0..36, as is the result of every dice
\* operation on every pair of dice.
C27_NeverNegative ==
  /\ \A i \in 1..Len(gameState.players) : gameState.players[i].currentNumber >= 0
  /\ gameState.diceCalculationResult # << >> => gameState.diceCalculationResult[1] \in 0..36
  /\ AllDiceResults \subseteq 0..36

\* the dice 3 and 6, in that order, have been subtracted and gave 3
C27_Witness ==
  /\ lastCall.fn = "applyDiceOperation" /\ lastCall.op = "-"
  /\ gameState.diceResults = <<3, 6>>
  /\ gameState.diceCalculationResult = <<3>>

\* the operation gives one outcome (result, or success against failure) for some
\* operands of the game's values and another for the same operands exchanged
OrderMatters(operation) ==
  \E a \in 0..MaxOperand, b \in 0..MaxOperand :
    applyOperation(a, b, operation) # applyOperation(b, a, operation)

\* what applyOperation gives for the operands of arith[1] exchanged
Exchanged == applyOperation(Number2, Number1, arith[1].operation)

\* C28 as stated: for + and *, apply(a,b,op) = apply(b,a,op) for all a and b; for each
\* of - and / there are operands a and b of the game's values for which apply(a,b,op)
\* and apply(b,a,op) differ in result or in success.
C28_OrderDependence ==
  /\ (Applied /\ arith[1].operation \in {"+", "*"}) => arith[1].result[1] = Exchanged
  /\ OrderMatters("-")
  /\ OrderMatters("/")

\* C28, amended: for +, * and -, apply(a,b,op) = apply(b,a,op) for all a and b; for /
\* there are operands a and b of the game's values for which apply(a,b,op) and
\* apply(b,a,op) differ in result or in success.
C28_OrderAmended ==
  /\ (Applied /\ arith[1].operation \in {"+", "*", "-"}) => arith[1].result[1] = Exchanged
  /\ OrderMatters("/")

\* 6 / 3 has given 2, and 3 / 6 fails
C28_Witness ==
  /\ Applied /\ arith[1].operation = "/"
  /\ Number1 = 6 /\ Number2 = 3
  /\ arith[1].result[1].ok /\ arith[1].result[1].value = 2
  /\ ~Exchanged.ok

\* C29: whenever gamePhase is dice-operation or final-operation and no winner dialog
\* is pending, the operations modal is visible and a countdown is running; no event,
\* the dismissal of the modal and a forced move that fails included, leaves the game
\* in an operation phase with no active countdown.
C29_OperationPhaseHasCountdown ==
  (gameState.gamePhase \in {"dice-operation", "final-operation"} /\ winnerAlert # "pending") =>
    /\ showOperationsModal
    /\ isTimerActive
    /\ timerRef # << >>

\* the step in which the timeout of a tap on the dice completes the roll
RollCompletes ==
  /\ rollTimeout # << >> /\ rollTimeout' = << >>
  /\ lastCall'.fn = "rollDiceForGame"

\* C30: the roll is applied to the game state that is current when it completes: also
\* when a new game was initialised between the tap and the completion, the players,
\* the targetNumber and the winner of the current state are the ones after the roll.
C30_RollAppliedToCurrentState ==
  [][RollCompletes =>
       /\ gameState'.players = gameState.players
       /\ gameState'.targetNumber = gameState.targetNumber
       /\ gameState'.winner = gameState.winner]_vars

\* C31: within one session (no new game is initialised in the step), once winner is
\* present no transition of the engine makes it absent or makes it a different player.
C31_WinnerPersists ==
  [][(gameState.winner # << >> /\ lastCall'.fn # "initializeGame") =>
       /\ gameState'.winner # << >>
       /\ gameState'.winner[1].id = gameState.winner[1].id]_vars

\* C32: whenever winner is present it has the id of players[currentPlayerIndex], and
\* its currentNumber is that player's currentNumber and is targetNumber.
C32_WinnerAgreesWithPlayers ==
  gameState.winner # << >> =>
    /\ gameState.winner[1].id = getCurrentPlayer(gameState).id
    /\ gameState.winner[1].currentNumber = getCurrentPlayer(gameState).currentNumber
    /\ gameState.winner[1].currentNumber = gameState.targetNumber

\* the step enters the dice-operation or the final-operation phase with the modal shown
EntersOperationPhase ==
  /\ gameState'.gamePhase \in {"dice-operation", "final-operation"}
  /\ gameState'.gamePhase # gameState.gamePhase
  /\ showOperationsModal'

\* C33: with no selection by the player, the countdown started on entering the
\* dice-operation phase and the one started on entering the final-operation phase
\* each start at no tick made, and handleTimeUp is called at the 5th tick of the
\* countdown of one second per tick: no earlier, and no interval makes a 6th.
C33_ExpiryAtFifthTick ==
  /\ [][EntersOperationPhase =>
          /\ timerRef' = <<5>>
          /\ intervalRef' # << >>
          /\ ProgressTicks' = 0]_vars
  /\ [][lastCall'.by = "timer" =>
          /\ intervalRef # << >>
          /\ ProgressTicks = 4
          /\ CountdownTicks = 5]_vars
  /\ [](intervalRef # << >> => ProgressTicks \in 0..4)
  /\ [](timerRef # << >> => CountdownTicks \in 0..5)

\* both countdowns have expired in turn: the forced dice operation, then the forced
\* final move, which passed the turn
C33_Witness ==
  /\ lastCall.by = "timer" /\ lastCall.fn = "applyFinalMove" /\ lastCall.ok
  /\ turns = 1
  /\ gameState.gamePhase = "roll"

\* C34: a tap on the dice while a roll is in progress or while gamePhase is not roll
\* starts nothing; a roll that completes finds the game in the phase roll with no dice
\* shown, so one roll is applied per turn and dice that were shown are never rolled again.
C34_RollRepeatGuard ==
  /\ []((isRolling \/ gameState.gamePhase # "roll") => ~ENABLED rollDiceAction)
  /\ [][(rollTimeout' # << >> /\ rollTimeout' # rollTimeout) =>
          /\ ~isRolling /\ rollTimeout = << >>
          /\ gameState.gamePhase = "roll"]_vars
  /\ [][RollCompletes =>
          /\ isRolling
          /\ gameState.gamePhase = "roll" /\ gameState.diceResults = << >>
          /\ gameState'.gamePhase = "dice-operation" /\ ~isRolling']_vars

\* the dice are shown, the operations modal has been dismissed and the dice button can
\* be tapped: only the test of gamePhase keeps the dice from being rolled again
C34_Witness ==
  /\ gameState.gamePhase = "dice-operation" /\ gameState.diceResults # << >>
  /\ Touchable /\ ~showOperationsModal /\ ~isRolling
  /\ turns < MaxTurns

\* the step is a selection of the player that reached the engine function fn
Selected(fn) == lastCall'.by = "human" /\ lastCall'.fn = fn

\* the division the '/' button of the phase asks for is not exact or is by zero
IllegalDiceDivision ==
  /\ gameState.gamePhase = "dice-operation" /\ gameState.diceResults # << >>
  /\ ~(gameState.diceResults[2] # 0 /\ Divides(gameState.diceResults[2], gameState.diceResults[1]))

IllegalFinalDivision ==
  /\ gameState.gamePhase = "final-operation" /\ gameState.diceCalculationResult # << >>
  /\ ~(/\ gameState.diceCalculationResult[1] # 0
       /\ Divides(gameState.diceCalculationResult[1], ActingNumber))

\* C35: a selection of the player reaches applyDiceOperation only in the phase
\* dice-operation with dice present and applyFinalMove only in the phase
\* final-operation with a dice result present; a selection of '/' that is illegal
\* makes no step at all, so it changes neither GameState nor the running countdown,
\* and a selection that fails changes neither.
C35_SelectionInOwnPhase ==
  /\ [][Selected("applyDiceOperation") =>
          /\ gameState.gamePhase = "dice-operation" /\ gameState.diceResults # << >>]_vars
  /\ [][Selected("applyFinalMove") =>
          /\ gameState.gamePhase = "final-operation"
          /\ gameState.diceCalculationResult # << >>]_vars
  /\ [][((Selected("applyDiceOperation") \/ Selected("applyFinalMove")) /\ ~lastCall'.ok) =>
          UNCHANGED <<gameState, showOperationsModal, isTimerActive, timerRef, intervalRef>>]_vars
  /\ [](IllegalDiceDivision => ~ENABLED (selectDiceOperation /\ lastCall'.op = "/"))
  /\ [](IllegalFinalDivision => ~ENABLED (selectFinalOperation /\ lastCall'.op = "/"))
  /\ [](gameState.gamePhase # "dice-operation" => ~ENABLED selectDiceOperation)
  /\ [](gameState.gamePhase # "final-operation" => ~ENABLED selectFinalOperation)

\* the dice 4 and 6 are shown, the countdown has made two ticks and goes on: the
\* '/' button is refused here while the three others are taken
C35_Witness ==
  /\ IllegalDiceDivision /\ gameState.diceResults = <<4, 6>>
  /\ showOperationsModal /\ isTimerActive /\ timerRef = <<3>>
  /\ ENABLED (selectDiceOperation /\ lastCall'.op = "*")

\* the customNames the call of initializeGame was given
GivenNames == arith[1].customNames

Blank(s) == \A k \in 1..Len(s) : s[k] = " "

\* seat has an entry in the names given and the entry is not blank
NameSupplied(seat) == seat <= Len(GivenNames) /\ ~Blank(GivenNames[seat])

\* t is s without the blanks at its two ends
TrimmedOf(t, s) ==
  \E a \in 0..Len(s), b \in 0..Len(s) :
    /\ a + b <= Len(s)
    /\ t = SubSeq(s, a + 1, Len(s) - b)
    /\ Blank(SubSeq(s, 1, a)) /\ Blank(SubSeq(s, Len(s) - b + 1, Len(s)))
    /\ t # << >> => (t[1] # " " /\ t[Len(t)] # " ")

\* every player is named: by the trimmed name given for the seat, or by word, a blank
\* and the number of the seat
NamesWithPlaceholder(word) ==
  (InitializeGameReturned /\ arith # << >>) =>
    \A seat \in 1..Len(gameState.players) :
      /\ gameState.players[seat].name # << >>
      /\ IF NameSupplied(seat)
         THEN TrimmedOf(gameState.players[seat].name, GivenNames[seat])
         ELSE gameState.players[seat].name = word \o <<" ", Digit(seat)>>

\* C36 as stated: after initializeGame every name is non-empty: the trimmed custom
\* name when one is supplied and not blank, and otherwise "Player N", N the seat's number.
C36_PlayerPlaceholder == NamesWithPlaceholder(<<"P", "l", "a", "y", "e", "r">>)

\* C36, amended: after initializeGame every name is non-empty: the trimmed custom
\* name when one is supplied and not blank, and otherwise "Oyuncu N", N the seat's number.
C36_OyuncuPlaceholder == NamesWithPlaceholder(<<"O", "y", "u", "n", "c", "u">>)

\* the first of three players typed a name between blanks, the others left theirs empty
C36_Witness ==
  /\ InitializeGameReturned /\ arith # << >>
  /\ Len(gameState.players) = 3
  /\ GivenNames = << <<" ", "a", " ">>, << >>, << >> >>
  /\ gameState.players[1].name = <<"a">>
  /\ gameState.players[3].name = <<"O", "y", "u", "n", "c", "u", " ", "3">>

====
